---- MODULE Spec2Model ----
(***************************************************************************)
(* Model of rtsp2web's StreamManager (src/main.py): the request-side       *)
(* get_frame / get_stream, the per-stream _process_frames worker ("Frame   *)
(* Pump"), and the _idle_checker thread ("Idle Reaper").                   *)
(*                                                                         *)
(* One step of the model is one access of a thread to the shared           *)
(* dictionaries of the StreamManager; the steps are named after the source *)
(* line they start at (gf = get_frame, gs = get_stream, p = the pump,      *)
(* r = the idle checker).                                                  *)
(*                                                                         *)
(* Time: `now` is time.time() on a clock that counts in units of 5         *)
(* seconds, the period of the idle checker's sleep (main.py:347) and the   *)
(* default retry interval (main.py:36).                                    *)
(***************************************************************************)
EXTENDS Integers, Sequences, FiniteSets, TLC

\* ------------------------------------------------------------------ bounds
\* the clock runs from 1 to MaxTime
MaxTime == 3
\* over any run: the transport handles that open successfully, the worker
\* threads created, the frames encoded per stream
MaxOpens == 2
MaxPumps == 2
MaxFrames == 2
\* one request thread and one stream (Spec): the get_frame calls of a run,
\* and its handles, workers and frames
MaxCalls == 4
BaseOpens == 1
BasePumps == 1
BaseFrames == 1
\* the get_frame calls of a run with two request threads, with two streams
RaceCalls == 2
StreamsCalls == 2
\* the get_frame calls of a run that ends with the shutdown hook
ShutdownCalls == 2

\* --------------------------------------------------------- configuration
\* Config.max_retries, default "3"
max_retries == 3
\* Config.retry_interval, default "5" seconds = 1 clock unit
retry_interval == 1
\* Config.idle_timeout, RTSP2WEB_IDLE_TIMEOUT=5 seconds = 1 clock unit
idle_timeout == 1
\* StreamManager.buffer_size
buffer_size == 3
\* time.sleep(5) of the idle checker = 1 clock unit
sweep_sleep == 1

\* the urls a config.json can list, and the request threads that can call in
Urls == {"A", "B"}
Callers == {1, 2}
\* the stream_index values a request can carry
StreamIndices == -1..2
Handles == 1..MaxOpens
Pumps == 1..MaxPumps

VARIABLES
  streams,            \* config.streams: the urls configured
  callers,            \* the threads that call get_frame
  quota,              \* what a run uses at most: [calls, opens, pumps, frames]
  now,                \* time.time()
  captures,           \* self.captures: a dict, kept as its list of [k, v] items
  last_frames,        \* self.last_frames[url]; 0 = no entry
  connection_errors,  \* self.connection_errors[url] = (t, n); n = 0 = no entry
  stream_status,      \* self.stream_status[url]; "absent" = no entry
  frame_buffers,      \* self.frame_buffers[url]: [has, q]
  processing_threads, \* self.processing_threads[url]: a pump; 0 = no entry
  stop_flags,         \* self.stop_flags[url]: the Event of a pump; 0 = no entry
  last_access_times,  \* self.last_access_times[url]; 0 = no entry
  released,           \* per handle: the number of release() calls on it
  evset,              \* the threading.Events that are set
  pumps,              \* the worker threads: [url, pc, cap, frm]
  nframes,            \* per url: frames encoded so far
  published,          \* per url: the frames appended to a buffer, in order
  ncalls,             \* get_frame calls made so far
  cpc, curl, ccap, cthr, cret,   \* a caller inside get_frame
  rpc, rtime, rkeys, rcap, rwake, \* the idle checker
  sdpc, sdkeys, sditer           \* shutdown_event: position, loop state

vars == <<streams, callers, quota, now, captures, last_frames, connection_errors,
          stream_status, frame_buffers, processing_threads, stop_flags,
          last_access_times, released, evset, pumps, nframes, published,
          ncalls, cpc, curl, ccap, cthr, cret, rpc, rtime, rkeys, rcap, rwake,
          sdpc, sdkeys, sditer>>

mgr == <<captures, last_frames, connection_errors, stream_status,
         frame_buffers, processing_threads, stop_flags, last_access_times>>
callerv == <<cpc, curl, ccap, cthr, cret>>
reaperv == <<rpc, rtime, rkeys, rcap, rwake>>
conf == <<streams, callers, quota>>
hookv == <<sdpc, sdkeys, sditer>>

\* ------------------------------------------------------------ dict helpers
Has(d, k) == \E i \in 1..Len(d) : d[i].k = k
\* d.get(k): 0 stands for None
Get(d, k) == IF Has(d, k) THEN d[CHOOSE i \in 1..Len(d) : d[i].k = k].v ELSE 0
\* d[k] = v keeps the position of an existing key, else appends
Put(d, k, v) ==
  IF Has(d, k) THEN [i \in 1..Len(d) |-> IF d[i].k = k THEN [k |-> k, v |-> v] ELSE d[i]]
  ELSE Append(d, [k |-> k, v |-> v])
DelKey(e, k) == e.k # k
Del(d, k) == SelectSeq(d, LAMBDA e : DelKey(e, k))
\* list(d.keys()): insertion order
Keys(d) == [i \in 1..Len(d) |-> d[i].k]

\* deque(maxlen=buffer_size).append(f)
DequeAppend(q, f) ==
  IF Len(q) >= buffer_size THEN Append(Tail(q), f) ELSE Append(q, f)

\* Thread.is_alive(): started and not yet returned
IsAlive(p) == pumps[p].pc \notin {"free", "unstarted", "exited"}
FreePumps == {p \in Pumps : pumps[p].pc = "free"}
NewPump == CHOOSE p \in FreePumps : \A q \in FreePumps : p <= q
UsedPumps == Pumps \ FreePumps
NOpened == Cardinality({h \in Handles : released[h] >= 0})
\* the callers past a successful open that may still start a worker
Pending == {c \in callers : cpc[c] \in {"gs281", "gs282", "gf292", "gf293"}}

\* a handler that tells the last retry apart from the earlier ones
ErrorStatusByCount(n) == IF n >= max_retries THEN "cooldown" ELSE "error"
\* the status _handle_connection_error leaves (main.py:312), whatever the
\* new count n is
ErrorStatus(n) == "error"
\* _handle_connection_error(url): the new (t, n) entry
ErrorEntry(e) == IF e.n > 0 THEN [t |-> now, n |-> e.n + 1] ELSE [t |-> now, n |-> 1]

\* ------------------------------------------------------------------- Init
InitState ==
  /\ now = 1
  /\ captures = <<>>
  /\ last_frames = [u \in Urls |-> 0]
  /\ connection_errors = [u \in Urls |-> [t |-> 0, n |-> 0]]
  /\ stream_status = [u \in Urls |-> "absent"]
  /\ frame_buffers = [u \in Urls |-> [has |-> FALSE, q |-> <<>>]]
  /\ processing_threads = [u \in Urls |-> 0]
  /\ stop_flags = [u \in Urls |-> 0]
  /\ last_access_times = [u \in Urls |-> 0]
  /\ released = [h \in Handles |-> -1]
  /\ evset = {}
  /\ pumps = [p \in Pumps |-> [url |-> "-", pc |-> "free", cap |-> 0, frm |-> 0]]
  /\ nframes = [u \in Urls |-> 0]
  /\ published = [u \in Urls |-> <<>>]
  /\ ncalls = 0
  /\ cpc = [c \in Callers |-> "idle"]
  /\ curl = [c \in Callers |-> "-"]
  /\ ccap = [c \in Callers |-> 0]
  /\ cthr = [c \in Callers |-> 0]
  /\ cret = [c \in Callers |-> 0]
  /\ rpc = "r335"
  /\ rtime = 0
  /\ rkeys = <<>>
  /\ rcap = 0
  /\ rwake = 0
  /\ sdpc = "run"
  /\ sdkeys = <<>>
  /\ sditer = [i |-> 0, n |-> 0]

\* one stream, requests served one at a time
Quota(c, o, p, f) == [calls |-> c, opens |-> o, pumps |-> p, frames |-> f]

Init ==
  /\ InitState /\ streams = {"A"} /\ callers = {1}
  /\ quota = Quota(MaxCalls, BaseOpens, BasePumps, BaseFrames)
\* one stream, two request threads
InitTwoCallers ==
  /\ InitState /\ streams = {"A"} /\ callers = {1, 2}
  /\ quota = Quota(RaceCalls, MaxOpens, MaxPumps, MaxFrames)
\* two streams, requests served one at a time
InitStreams ==
  /\ InitState /\ streams = {"A", "B"} /\ callers = {1}
  /\ quota = Quota(StreamsCalls, MaxOpens, MaxPumps, BaseFrames)

\* ------------------------------------------------- get_frame / get_stream
\* the caller leaves get_frame with result r (0 = None, -1 = KeyError raised)
Return(c, r) ==
  /\ cpc' = [cpc EXCEPT ![c] = "ret"]
  /\ cret' = [cret EXCEPT ![c] = r]

Goto(c, l) == cpc' = [cpc EXCEPT ![c] = l] /\ cret' = cret

\* the route calls stream_manager.get_frame(stream.url); line 286
GetFrameCall(c, u) ==
  /\ sdpc = "run"
  /\ c \in callers
  /\ cpc[c] = "idle"
  /\ u \in streams
  /\ ncalls < quota.calls
  /\ ncalls' = ncalls + 1
  /\ last_access_times' = [last_access_times EXCEPT ![u] = now]
  /\ curl' = [curl EXCEPT ![c] = u]
  /\ Goto(c, "gf287")
  /\ UNCHANGED <<conf, hookv, now, captures, last_frames, connection_errors, stream_status,
                 frame_buffers, processing_threads, stop_flags, released, evset,
                 pumps, nframes, published, ccap, cthr, reaperv>>

\* config.streams, a list: its length is what the route tests at line 396
ConfigStreams == IF "B" \in streams THEN <<"A", "B">> ELSE <<"A">>
InRange(i) == ~(i < 0 \/ i >= Len(ConfigStreams))

\* lines 396-397: a stream_index outside the list raises HTTPException(404)
\* before stream_manager is touched; the request is over
RouteNotFound(c, i) ==
  /\ sdpc = "run"
  /\ c \in callers
  /\ cpc[c] = "idle"
  /\ ~InRange(i)
  /\ ncalls < quota.calls
  /\ ncalls' = ncalls + 1
  /\ UNCHANGED <<conf, hookv, now, mgr, released, evset, pumps, nframes, published,
                 callerv, reaperv>>

\* lines 400-405: what the route answers to the result r of get_frame: 503
\* for None, 200 with the frame otherwise; a KeyError raised in get_frame
\* leaves the route as an unhandled exception, a 500
Response(r) == IF r = 0 THEN 503 ELSE IF r = -1 THEN 500 ELSE 200

\* line 287: if url not in self.captures
GetFrameCheck(c) ==
  /\ cpc[c] = "gf287"
  /\ Goto(c, IF Has(captures, curl[c]) THEN "gf300" ELSE "gs175")
  /\ UNCHANGED <<conf, hookv, now, mgr, released, evset, pumps, nframes, published,
                 ncalls, curl, ccap, cthr, reaperv>>

\* line 175: get_stream's own test of self.captures
GetStreamCheck(c) ==
  /\ cpc[c] = "gs175"
  /\ Goto(c, IF Has(captures, curl[c]) THEN "gs282" ELSE "gs177")
  /\ UNCHANGED <<conf, hookv, now, mgr, released, evset, pumps, nframes, published,
                 ncalls, curl, ccap, cthr, reaperv>>

\* lines 177-187: the retry cooldown
InCooldown(e) == e.n > 0 /\ e.n >= max_retries /\ now - e.t < retry_interval
CooldownOver(e) == e.n > 0 /\ e.n >= max_retries /\ ~(now - e.t < retry_interval)

GetStreamCooldown(c) ==
  /\ cpc[c] = "gs177"
  /\ LET u == curl[c]
         e == connection_errors[u]
     IN  IF InCooldown(e)
         THEN /\ stream_status' = [stream_status EXCEPT ![u] = "cooldown"]
              /\ Return(c, 0)
              /\ UNCHANGED connection_errors
         ELSE /\ connection_errors' =
                   IF CooldownOver(e)
                   THEN [connection_errors EXCEPT ![u] = [t |-> 0, n |-> 0]]
                   ELSE connection_errors
              /\ Goto(c, "gs234")
              /\ UNCHANGED stream_status
  /\ UNCHANGED <<conf, hookv, now, captures, last_frames, frame_buffers, processing_threads,
                 stop_flags, last_access_times, released, evset, pumps, nframes,
                 published, ncalls, curl, ccap, cthr, reaperv>>

\* line 234
GetStreamConnecting(c) ==
  /\ cpc[c] = "gs234"
  /\ stream_status' = [stream_status EXCEPT ![curl[c]] = "connecting"]
  /\ Goto(c, "gs237")
  /\ UNCHANGED <<conf, hookv, now, captures, last_frames, connection_errors, frame_buffers,
                 processing_threads, stop_flags, last_access_times, released, evset,
                 pumps, nframes, published, ncalls, curl, ccap, cthr, reaperv>>

\* lines 237-252: cap = cv2.VideoCapture(stream_url), in the caller's own
\* thread; the transport decides whether the handle is opened. Not opened
\* (or the constructor raises, line 249): _handle_connection_error (lines
\* 306-312), return None, and get_frame returns None at line 290. Opened:
\* the error entry is deleted and the status is CONNECTED.
GetStreamOpen(c) ==
  /\ cpc[c] = "gs237"
  /\ LET u == curl[c]
         e == ErrorEntry(connection_errors[u])
     IN  \E ok \in BOOLEAN :
           IF ok
           THEN /\ NOpened < quota.opens
                /\ Cardinality(UsedPumps) + Cardinality(Pending) < quota.pumps
                /\ ccap' = [ccap EXCEPT ![c] = NOpened + 1]
                /\ released' = [released EXCEPT ![NOpened + 1] = 0]
                /\ connection_errors' = [connection_errors EXCEPT ![u] = [t |-> 0, n |-> 0]]
                /\ stream_status' = [stream_status EXCEPT ![u] = "connected"]
                /\ Goto(c, "gs281")
           ELSE /\ connection_errors' = [connection_errors EXCEPT ![u] = e]
                /\ stream_status' = [stream_status EXCEPT ![u] = ErrorStatus(e.n)]
                /\ Return(c, 0)
                /\ UNCHANGED <<ccap, released>>
  /\ UNCHANGED <<conf, hookv, now, captures, last_frames, frame_buffers, processing_threads,
                 stop_flags, last_access_times, evset, pumps, nframes, published,
                 ncalls, curl, cthr, reaperv>>

\* line 281: self.captures[url] = cap
GetStreamStore(c) ==
  /\ cpc[c] = "gs281"
  /\ captures' = Put(captures, curl[c], ccap[c])
  /\ ccap' = [ccap EXCEPT ![c] = 0]
  /\ Goto(c, "gs282")
  /\ UNCHANGED <<conf, hookv, now, last_frames, connection_errors, stream_status,
                 frame_buffers, processing_threads, stop_flags, last_access_times,
                 released, evset, pumps, nframes, published, ncalls, curl, cthr,
                 reaperv>>

\* line 282: return self.captures[url] (KeyError when the entry is gone by
\* now), then line 289: a VideoCapture object is always truthy
GetStreamReturn(c) ==
  /\ cpc[c] = "gs282"
  /\ IF Has(captures, curl[c]) THEN Goto(c, "gf292") ELSE Return(c, -1)
  /\ UNCHANGED <<conf, hookv, now, mgr, released, evset, pumps, nframes, published,
                 ncalls, curl, ccap, cthr, reaperv>>

\* line 292: no thread registered, or the registered thread is not alive
NeedsThread(u) ==
  processing_threads[u] = 0 \/ ~IsAlive(processing_threads[u])

GetFrameThreadCheck(c) ==
  /\ cpc[c] = "gf292"
  /\ Goto(c, IF NeedsThread(curl[c]) THEN "gf293" ELSE "gf300")
  /\ UNCHANGED <<conf, hookv, now, mgr, released, evset, pumps, nframes, published,
                 ncalls, curl, ccap, cthr, reaperv>>

\* lines 293-296: a fresh Event goes into self.stop_flags[url], and the
\* Thread object for it is built
GetFrameNewEvent(c) ==
  /\ cpc[c] = "gf293"
  /\ Cardinality(UsedPumps) < quota.pumps
  /\ stop_flags' = [stop_flags EXCEPT ![curl[c]] = NewPump]
  /\ pumps' = [pumps EXCEPT ![NewPump] =
                  [url |-> curl[c], pc |-> "unstarted", cap |-> 0, frm |-> 0]]
  /\ cthr' = [cthr EXCEPT ![c] = NewPump]
  /\ Goto(c, "gf297")
  /\ UNCHANGED <<conf, hookv, now, captures, last_frames, connection_errors, stream_status,
                 frame_buffers, processing_threads, last_access_times, released,
                 evset, nframes, published, ncalls, curl, ccap, reaperv>>

\* line 297: thread.start()
GetFrameStart(c) ==
  /\ cpc[c] = "gf297"
  /\ pumps' = [pumps EXCEPT ![cthr[c]].pc = "p124"]
  /\ Goto(c, "gf298")
  /\ UNCHANGED <<conf, hookv, now, mgr, released, evset, nframes, published, ncalls,
                 curl, ccap, cthr, reaperv>>

\* line 298: self.processing_threads[url] = thread
GetFrameRegister(c) ==
  /\ cpc[c] = "gf298"
  /\ processing_threads' = [processing_threads EXCEPT ![curl[c]] = cthr[c]]
  /\ cthr' = [cthr EXCEPT ![c] = 0]
  /\ Goto(c, "gf300")
  /\ UNCHANGED <<conf, hookv, now, captures, last_frames, connection_errors, stream_status,
                 frame_buffers, stop_flags, last_access_times, released, evset,
                 pumps, nframes, published, ncalls, curl, ccap, reaperv>>

\* lines 300-302: the newest frame of the buffer, else self.last_frames.get(url)
Latest(u) ==
  IF frame_buffers[u].has /\ Len(frame_buffers[u].q) > 0
  THEN frame_buffers[u].q[Len(frame_buffers[u].q)]
  ELSE last_frames[u]

GetFrameReturn(c) ==
  /\ cpc[c] = "gf300"
  /\ Return(c, Latest(curl[c]))
  /\ UNCHANGED <<conf, hookv, now, mgr, released, evset, pumps, nframes, published,
                 ncalls, curl, ccap, cthr, reaperv>>

\* the route, lines 402-405: 503 for None, the frame otherwise; the request
\* thread is free for the next request
RouteRespond(c) ==
  /\ cpc[c] = "ret"
  /\ cpc' = [cpc EXCEPT ![c] = "idle"]
  /\ cret' = [cret EXCEPT ![c] = 0]
  /\ curl' = [curl EXCEPT ![c] = "-"]
  /\ UNCHANGED <<conf, hookv, now, mgr, released, evset, pumps, nframes, published,
                 ncalls, ccap, cthr, reaperv>>

\* ------------------------------------------------------- _process_frames
PGoto(p, l) == pumps' = [pumps EXCEPT ![p].pc = l]

\* lines 124-128: the stop test, then cap = self.captures.get(url); without
\* a capture the worker sleeps 0.1 s and tests again
PumpLoop(p) ==
  /\ pumps[p].pc = "p124"
  /\ IF p \in evset
     THEN pumps' = [pumps EXCEPT ![p].pc = "exited", ![p].cap = 0]
     ELSE IF Has(captures, pumps[p].url)
          THEN pumps' = [pumps EXCEPT ![p].pc = "p131",
                                      ![p].cap = Get(captures, pumps[p].url)]
          ELSE pumps' = [pumps EXCEPT ![p].cap = 0]
  /\ UNCHANGED <<conf, hookv, now, mgr, released, evset, nframes, published, ncalls,
                 callerv, reaperv>>

\* lines 131-157: cap.grab() returns False on a released capture; on an open
\* one the transport decides. A grabbed frame is retrieved, resized and
\* encoded ("frame"), or dropped: retrieve/imencode fail (lines 140, 157) or
\* raise (line 169, sleep 0.1 s); every drop goes back to the loop head.
PumpGrab(p) ==
  /\ pumps[p].pc = "p131"
  /\ LET u == pumps[p].url
     IN  \E out \in {"fail", "drop", "frame"} :
           /\ released[pumps[p].cap] > 0 => out = "fail"
           /\ out = "frame" => nframes[u] < quota.frames
           /\ IF out = "fail" THEN PGoto(p, "p132") /\ UNCHANGED nframes
              ELSE IF out = "drop"
              THEN pumps' = [pumps EXCEPT ![p].pc = "p124", ![p].cap = 0]
                   /\ UNCHANGED nframes
              ELSE /\ nframes' = [nframes EXCEPT ![u] = nframes[u] + 1]
                   /\ pumps' = [pumps EXCEPT ![p].pc = "p161", ![p].cap = 0,
                                             ![p].frm = nframes[u] + 1]
  /\ UNCHANGED <<conf, hookv, now, mgr, released, evset, published, ncalls, callerv,
                 reaperv>>

\* line 132: self._handle_connection_error(url), lines 306-312
PumpHandleError(p) ==
  /\ pumps[p].pc = "p132"
  /\ LET u == pumps[p].url
         e == ErrorEntry(connection_errors[u])
     IN  /\ connection_errors' = [connection_errors EXCEPT ![u] = e]
         /\ stream_status' = [stream_status EXCEPT ![u] = ErrorStatus(e.n)]
  /\ PGoto(p, "p133")
  /\ UNCHANGED <<conf, hookv, now, captures, last_frames, frame_buffers, processing_threads,
                 stop_flags, last_access_times, released, evset, nframes, published,
                 ncalls, callerv, reaperv>>

\* line 133: cap.release()
PumpRelease(p) ==
  /\ pumps[p].pc = "p133"
  /\ released' = [released EXCEPT ![pumps[p].cap] = released[pumps[p].cap] + 1]
  /\ pumps' = [pumps EXCEPT ![p].pc = "p134", ![p].cap = 0]
  /\ UNCHANGED <<conf, hookv, now, mgr, evset, nframes, published, ncalls, callerv,
                 reaperv>>

\* a worker without the except clause of line 169: the KeyError ends it
PumpDeleteUncaught(p) ==
  /\ pumps[p].pc = "p134"
  /\ IF Has(captures, pumps[p].url)
     THEN captures' = Del(captures, pumps[p].url) /\ PGoto(p, "p135")
     ELSE UNCHANGED captures /\ PGoto(p, "exited")
  /\ UNCHANGED <<conf, hookv, now, last_frames, connection_errors, stream_status,
                 frame_buffers, processing_threads, stop_flags, last_access_times,
                 released, evset, nframes, published, ncalls, callerv, reaperv>>

\* line 134: del self.captures[url]; a KeyError is caught at line 169
\* (sleep 0.1 s, back to the loop head)
PumpDelete(p) ==
  /\ pumps[p].pc = "p134"
  /\ IF Has(captures, pumps[p].url)
     THEN captures' = Del(captures, pumps[p].url) /\ PGoto(p, "p135")
     ELSE UNCHANGED captures /\ PGoto(p, "p124")
  /\ UNCHANGED <<conf, hookv, now, last_frames, connection_errors, stream_status,
                 frame_buffers, processing_threads, stop_flags, last_access_times,
                 released, evset, nframes, published, ncalls, callerv, reaperv>>

\* line 135: self.stream_status[url] = RECONNECTING
PumpReconnecting(p) ==
  /\ pumps[p].pc = "p135"
  /\ stream_status' = [stream_status EXCEPT ![pumps[p].url] = "reconnecting"]
  /\ PGoto(p, "p124")
  /\ UNCHANGED <<conf, hookv, now, captures, last_frames, connection_errors, frame_buffers,
                 processing_threads, stop_flags, last_access_times, released, evset,
                 nframes, published, ncalls, callerv, reaperv>>

\* lines 161-165: the frame goes into self.last_frames, then the test
\* whether the url has a buffer
PumpStoreLast(p) ==
  /\ pumps[p].pc = "p161"
  /\ last_frames' = [last_frames EXCEPT ![pumps[p].url] = pumps[p].frm]
  /\ PGoto(p, IF frame_buffers[pumps[p].url].has THEN "p167" ELSE "p166")
  /\ UNCHANGED <<conf, hookv, now, captures, connection_errors, stream_status,
                 frame_buffers, processing_threads, stop_flags, last_access_times,
                 released, evset, nframes, published, ncalls, callerv, reaperv>>

\* line 166: self.frame_buffers[url] = deque(maxlen=self.buffer_size)
PumpNewBuffer(p) ==
  /\ pumps[p].pc = "p166"
  /\ frame_buffers' = [frame_buffers EXCEPT ![pumps[p].url] = [has |-> TRUE, q |-> <<>>]]
  /\ PGoto(p, "p167")
  /\ UNCHANGED <<conf, hookv, now, captures, last_frames, connection_errors, stream_status,
                 processing_threads, stop_flags, last_access_times, released, evset,
                 nframes, published, ncalls, callerv, reaperv>>

\* line 167: self.frame_buffers[url].append(frame_base64)
PumpAppend(p) ==
  /\ pumps[p].pc = "p167"
  /\ LET u == pumps[p].url
     IN  /\ frame_buffers' = [frame_buffers EXCEPT
                                ![u].q = DequeAppend(frame_buffers[u].q, pumps[p].frm)]
         /\ published' = [published EXCEPT ![u] = Append(published[u], pumps[p].frm)]
  /\ pumps' = [pumps EXCEPT ![p].pc = "p124", ![p].frm = 0]
  /\ UNCHANGED <<conf, hookv, now, captures, last_frames, connection_errors, stream_status,
                 processing_threads, stop_flags, last_access_times, released, evset,
                 nframes, ncalls, callerv, reaperv>>

\* ---------------------------------------------------------- _idle_checker
\* lines 335-336: current_time = time.time(); list(self.captures.keys())
ReaperSweep ==
  /\ rpc = "r335"
  /\ rtime' = now
  /\ rkeys' = Keys(captures)
  /\ rpc' = "r337"
  /\ UNCHANGED <<conf, hookv, now, mgr, released, evset, pumps, nframes, published,
                 ncalls, callerv, rcap, rwake>>

\* lines 337-338 for the next url of the list; after the last one, line 347
Idle(u) == last_access_times[u] # 0 /\ rtime - last_access_times[u] > idle_timeout

ReaperNext ==
  /\ rpc = "r337"
  /\ IF rkeys = <<>>
     THEN rpc' = "r347" /\ rwake' = now + sweep_sleep /\ rtime' = 0
          /\ UNCHANGED rkeys
     ELSE IF Idle(Head(rkeys))
          THEN rpc' = "r340" /\ UNCHANGED <<rkeys, rwake, rtime>>
          ELSE rkeys' = Tail(rkeys) /\ UNCHANGED <<rpc, rwake, rtime>>
  /\ UNCHANGED <<conf, hookv, now, mgr, released, evset, pumps, nframes, published,
                 ncalls, callerv, rcap>>

\* lines 340-341: self.stop_flags[url].set()
ReaperStop ==
  /\ rpc = "r340"
  /\ evset' = IF stop_flags[Head(rkeys)] # 0 THEN evset \cup {stop_flags[Head(rkeys)]}
              ELSE evset
  /\ rpc' = "r342"
  /\ UNCHANGED <<conf, hookv, now, mgr, released, pumps, nframes, published, ncalls,
                 callerv, rtime, rkeys, rcap, rwake>>

\* lines 342-343: if url in self.captures: cap = self.captures[url]
ReaperTake ==
  /\ rpc = "r342"
  /\ IF Has(captures, Head(rkeys))
     THEN rcap' = Get(captures, Head(rkeys)) /\ rpc' = "r344"
     ELSE rcap' = 0 /\ rpc' = "r346"
  /\ UNCHANGED <<conf, hookv, now, mgr, released, evset, pumps, nframes, published,
                 ncalls, callerv, rtime, rkeys, rwake>>

\* line 344: cap.release()
ReaperRelease ==
  /\ rpc = "r344"
  /\ released' = [released EXCEPT ![rcap] = released[rcap] + 1]
  /\ rcap' = 0
  /\ rpc' = "r345"
  /\ UNCHANGED <<conf, hookv, now, mgr, evset, pumps, nframes, published, ncalls,
                 callerv, rtime, rkeys, rwake>>

\* line 345: del self.captures[url]; nothing catches a KeyError here, it
\* ends the thread
ReaperDelete ==
  /\ rpc = "r345"
  /\ IF Has(captures, Head(rkeys))
     THEN captures' = Del(captures, Head(rkeys)) /\ rpc' = "r346"
     ELSE UNCHANGED captures /\ rpc' = "crashed"
  /\ UNCHANGED <<conf, hookv, now, last_frames, connection_errors, stream_status,
                 frame_buffers, processing_threads, stop_flags, last_access_times,
                 released, evset, pumps, nframes, published, ncalls, callerv,
                 rtime, rkeys, rcap, rwake>>

\* a teardown that also drops the cached frame of the url
ReaperIdleClearing ==
  /\ rpc = "r346"
  /\ stream_status' = [stream_status EXCEPT ![Head(rkeys)] = "idle"]
  /\ last_frames' = [last_frames EXCEPT ![Head(rkeys)] = 0]
  /\ rkeys' = Tail(rkeys)
  /\ rpc' = "r337"
  /\ UNCHANGED <<conf, hookv, now, captures, connection_errors, frame_buffers,
                 processing_threads, stop_flags, last_access_times, released, evset,
                 pumps, nframes, published, ncalls, callerv, rtime, rcap, rwake>>

\* line 346: self.stream_status[url] = "idle"
ReaperIdle ==
  /\ rpc = "r346"
  /\ stream_status' = [stream_status EXCEPT ![Head(rkeys)] = "idle"]
  /\ rkeys' = Tail(rkeys)
  /\ rpc' = "r337"
  /\ UNCHANGED <<conf, hookv, now, captures, last_frames, connection_errors, frame_buffers,
                 processing_threads, stop_flags, last_access_times, released, evset,
                 pumps, nframes, published, ncalls, callerv, rtime, rcap, rwake>>

\* line 347: time.sleep(5) is over
ReaperWake ==
  /\ rpc = "r347"
  /\ now >= rwake
  /\ rpc' = "r335"
  /\ rwake' = 0
  /\ UNCHANGED <<conf, hookv, now, mgr, released, evset, pumps, nframes, published,
                 ncalls, callerv, rtime, rkeys, rcap>>

\* --------------------------------------------------------- shutdown_event
\* the urls of self.stop_flags, as stop_flags.items() yields them
UrlList == <<"A", "B">>
HasStopFlag(u) == stop_flags[u] # 0
StopFlagUrls == SelectSeq(UrlList, HasStopFlag)

\* the hook runs on the event loop once the server has stopped serving: no
\* request is inside get_frame. Line 416: the iterator over stop_flags.
ShutdownBegin ==
  /\ sdpc = "run"
  /\ \A c \in callers : cpc[c] = "idle"
  /\ sdpc' = "sd416"
  /\ sdkeys' = StopFlagUrls
  /\ UNCHANGED <<conf, now, mgr, released, evset, pumps, nframes, published,
                 ncalls, callerv, reaperv, sditer>>

\* lines 416-419: stop_event.set(), then join(timeout=1.0) of the registered
\* thread, which returns after a second whether or not the thread has ended;
\* after the last item, line 422: the iterator over self.captures
ShutdownStop ==
  /\ sdpc = "sd416"
  /\ IF sdkeys = <<>>
     THEN /\ sdpc' = "sd422"
          /\ sditer' = [i |-> 1, n |-> Len(captures)]
          /\ UNCHANGED <<evset, sdkeys>>
     ELSE /\ evset' = evset \cup {stop_flags[Head(sdkeys)]}
          /\ sdkeys' = Tail(sdkeys)
          /\ UNCHANGED <<sdpc, sditer>>
  /\ UNCHANGED <<conf, now, mgr, released, pumps, nframes, published, ncalls,
                 callerv, reaperv>>

\* lines 422-427: the next item of self.captures.items() and cap.release().
\* The iterator raises RuntimeError when the dict has changed size since line
\* 422 (a worker or the idle checker deleted an entry); nothing catches it
\* and the hook ends there.
ShutdownRelease ==
  /\ sdpc = "sd422"
  /\ IF Len(captures) # sditer.n
     THEN sdpc' = "raised" /\ UNCHANGED <<released, sditer>>
     ELSE IF sditer.i > Len(captures)
          THEN sdpc' = "sd430" /\ UNCHANGED <<released, sditer>>
          ELSE /\ released' = [released EXCEPT ![captures[sditer.i].v] = @ + 1]
               /\ sditer' = [sditer EXCEPT !.i = @ + 1]
               /\ UNCHANGED sdpc
  /\ UNCHANGED <<conf, now, mgr, evset, pumps, nframes, published, ncalls,
                 callerv, reaperv, sdkeys>>

\* line 430: stream_manager.captures.clear()
ShutdownClearCaptures ==
  /\ sdpc = "sd430"
  /\ captures' = <<>>
  /\ sdpc' = "sd431"
  /\ UNCHANGED <<conf, now, last_frames, connection_errors, stream_status,
                 frame_buffers, processing_threads, stop_flags, last_access_times,
                 released, evset, pumps, nframes, published, ncalls, callerv,
                 reaperv, sdkeys, sditer>>

\* lines 431-432: last_frames.clear(), last_frame_times.clear()
ShutdownClearFrames ==
  /\ sdpc = "sd431"
  /\ last_frames' = [u \in Urls |-> 0]
  /\ sdpc' = "sd433"
  /\ UNCHANGED <<conf, now, captures, connection_errors, stream_status,
                 frame_buffers, processing_threads, stop_flags, last_access_times,
                 released, evset, pumps, nframes, published, ncalls, callerv,
                 reaperv, sdkeys, sditer>>

\* line 433: connection_errors.clear()
ShutdownClearErrors ==
  /\ sdpc = "sd433"
  /\ connection_errors' = [u \in Urls |-> [t |-> 0, n |-> 0]]
  /\ sdpc' = "sd434"
  /\ UNCHANGED <<conf, now, captures, last_frames, stream_status,
                 frame_buffers, processing_threads, stop_flags, last_access_times,
                 released, evset, pumps, nframes, published, ncalls, callerv,
                 reaperv, sdkeys, sditer>>

\* line 434: stream_status.clear()
ShutdownClearStatus ==
  /\ sdpc = "sd434"
  /\ stream_status' = [u \in Urls |-> "absent"]
  /\ sdpc' = "sd435"
  /\ UNCHANGED <<conf, now, captures, last_frames, connection_errors,
                 frame_buffers, processing_threads, stop_flags, last_access_times,
                 released, evset, pumps, nframes, published, ncalls, callerv,
                 reaperv, sdkeys, sditer>>

\* line 435: frame_buffers.clear()
ShutdownClearBuffers ==
  /\ sdpc = "sd435"
  /\ frame_buffers' = [u \in Urls |-> [has |-> FALSE, q |-> <<>>]]
  /\ sdpc' = "sd436"
  /\ UNCHANGED <<conf, now, captures, last_frames, connection_errors,
                 stream_status, processing_threads, stop_flags, last_access_times,
                 released, evset, pumps, nframes, published, ncalls, callerv,
                 reaperv, sdkeys, sditer>>

\* line 436: processing_threads.clear()
ShutdownClearThreads ==
  /\ sdpc = "sd436"
  /\ processing_threads' = [u \in Urls |-> 0]
  /\ sdpc' = "sd437"
  /\ UNCHANGED <<conf, now, captures, last_frames, connection_errors,
                 stream_status, frame_buffers, stop_flags, last_access_times,
                 released, evset, pumps, nframes, published, ncalls, callerv,
                 reaperv, sdkeys, sditer>>

\* line 437: stop_flags.clear(); the hook is over (line 439)
ShutdownClearFlags ==
  /\ sdpc = "sd437"
  /\ stop_flags' = [u \in Urls |-> 0]
  /\ sdpc' = "done"
  /\ UNCHANGED <<conf, now, captures, last_frames, connection_errors,
                 stream_status, frame_buffers, processing_threads, last_access_times,
                 released, evset, pumps, nframes, published, ncalls, callerv,
                 reaperv, sdkeys, sditer>>

\* ------------------------------------------------------------------ clock
Tick ==
  /\ now < MaxTime
  /\ now' = now + 1
  /\ UNCHANGED <<conf, hookv, mgr, released, evset, pumps, nframes, published, ncalls,
                 callerv, reaperv>>

\* ------------------------------------------------------------------- Next
\* a get_frame that is under way goes on
CallerRun(c) ==
  \/ GetFrameCheck(c)
  \/ GetStreamCheck(c)
  \/ GetStreamCooldown(c)
  \/ GetStreamConnecting(c)
  \/ GetStreamOpen(c)
  \/ GetStreamStore(c)
  \/ GetStreamReturn(c)
  \/ GetFrameThreadCheck(c)
  \/ GetFrameNewEvent(c)
  \/ GetFrameStart(c)
  \/ GetFrameRegister(c)
  \/ GetFrameReturn(c)
  \/ RouteRespond(c)

PumpStep(p) ==
  \/ PumpLoop(p)
  \/ PumpGrab(p)
  \/ PumpHandleError(p)
  \/ PumpRelease(p)
  \/ PumpDelete(p)
  \/ PumpReconnecting(p)
  \/ PumpStoreLast(p)
  \/ PumpNewBuffer(p)
  \/ PumpAppend(p)

ReaperStep ==
  \/ ReaperSweep
  \/ ReaperNext
  \/ ReaperStop
  \/ ReaperTake
  \/ ReaperRelease
  \/ ReaperDelete
  \/ ReaperIdle
  \/ ReaperWake

Next ==
  \/ \E c \in Callers : \E i \in StreamIndices : RouteNotFound(c, i)
  \/ \E c \in Callers : \E u \in Urls : GetFrameCall(c, u)
  \/ \E c \in Callers : CallerRun(c)
  \/ \E p \in Pumps : PumpStep(p)
  \/ ReaperStep
  \/ Tick

Spec == Init /\ [][Next]_vars

\* the server's whole life: it serves, then the shutdown hook runs while the
\* workers and the idle checker are still going
ShutdownStep ==
  \/ ShutdownBegin
  \/ ShutdownStop
  \/ ShutdownRelease
  \/ ShutdownClearCaptures
  \/ ShutdownClearFrames
  \/ ShutdownClearErrors
  \/ ShutdownClearStatus
  \/ ShutdownClearBuffers
  \/ ShutdownClearThreads
  \/ ShutdownClearFlags

InitShutdown ==
  /\ InitState /\ streams = {"A"} /\ callers = {1}
  /\ quota = Quota(ShutdownCalls, BaseOpens, BasePumps, BaseFrames)
NextShutdown == Next \/ ShutdownStep
SpecShutdown == InitShutdown /\ [][NextShutdown]_vars
SpecTwoCallers == InitTwoCallers /\ [][Next]_vars

\* Two request threads inside one sleep of the idle checker: its first sweep
\* found no capture and it sleeps (line 347) while the requests arrive; no
\* sweep and no clock tick falls into the window. Every behaviour of
\* SpecRace is a behaviour of SpecTwoCallers after the two steps ReaperSweep,
\* ReaperNext.
InitRace ==
  /\ now = 1
  /\ captures = <<>>
  /\ last_frames = [u \in Urls |-> 0]
  /\ connection_errors = [u \in Urls |-> [t |-> 0, n |-> 0]]
  /\ stream_status = [u \in Urls |-> "absent"]
  /\ frame_buffers = [u \in Urls |-> [has |-> FALSE, q |-> <<>>]]
  /\ processing_threads = [u \in Urls |-> 0]
  /\ stop_flags = [u \in Urls |-> 0]
  /\ last_access_times = [u \in Urls |-> 0]
  /\ released = [h \in Handles |-> -1]
  /\ evset = {}
  /\ pumps = [p \in Pumps |-> [url |-> "-", pc |-> "free", cap |-> 0, frm |-> 0]]
  /\ nframes = [u \in Urls |-> 0]
  /\ published = [u \in Urls |-> <<>>]
  /\ ncalls = 0
  /\ cpc = [c \in Callers |-> "idle"]
  /\ curl = [c \in Callers |-> "-"]
  /\ ccap = [c \in Callers |-> 0]
  /\ cthr = [c \in Callers |-> 0]
  /\ cret = [c \in Callers |-> 0]
  /\ rpc = "r347"
  /\ rtime = 0
  /\ rkeys = <<>>
  /\ rcap = 0
  /\ rwake = 1 + sweep_sleep
  /\ sdpc = "run"
  /\ sdkeys = <<>>
  /\ sditer = [i |-> 0, n |-> 0]
  /\ streams = {"A"}
  /\ callers = {1, 2}
  /\ quota = Quota(RaceCalls, MaxOpens, MaxPumps, MaxFrames)

NextRace ==
  \/ \E c \in Callers : \E i \in StreamIndices : RouteNotFound(c, i)
  \/ \E c \in Callers : \E u \in Urls : GetFrameCall(c, u)
  \/ \E c \in Callers : CallerRun(c)
  \/ \E p \in Pumps : PumpStep(p)

SpecRace == InitRace /\ [][NextRace]_vars
SpecStreams == InitStreams /\ [][Next]_vars

\* Scheduling: every started thread keeps running (the request threads
\* inside get_frame, the workers, the idle checker) and time passes; nothing
\* makes a new request arrive.
FairSpec ==
  /\ Init /\ [][Next]_vars
  /\ \A c \in Callers : WF_vars(CallerRun(c))
  /\ \A p \in Pumps : WF_vars(PumpStep(p))
  /\ WF_vars(ReaperStep)
  /\ WF_vars(Tick)

\* ================================================================ claims
AlivePumps(u) == {p \in Pumps : IsAlive(p) /\ pumps[p].url = u}
\* the step of caller c is the transport open of line 237
OpenStep(c) == cpc[c] = "gs237" /\ cpc'[c] # "gs237"
\* the step of caller c leaves get_frame
ReturnStep(c) == cpc[c] # "ret" /\ cpc'[c] = "ret"
ErrCount(u) == connection_errors[u].n

\* C1: for every url, at most one worker thread whose loop has not exited
\* is alive, also after two concurrent get_frame calls for an unstarted url.
C1_AtMostOnePump == \A u \in Urls : Cardinality(AlivePumps(u)) <= 1

\* C2: once the error count of a url has reached max_retries, no open is
\* attempted for it before retry_interval has passed since the last error.
C2_NoOpenInCooldown ==
  [][\A c \in Callers : OpenStep(c) => ~InCooldown(connection_errors[curl[c]])]_vars

\* C3: no step of a thread that executes get_frame is a transport open.
C3_NoOpenInCaller == [][\A c \in Callers : ~OpenStep(c)]_vars

\* C4: whenever get_frame returns, it returns the newest frame of the
\* buffer, else the last-frame cache, else None; also when starting the
\* session failed.
C4_ReturnsLatest ==
  [][\A c \in Callers : ReturnStep(c) => cret'[c] = Latest(curl[c])]_vars

\* C5: after a pull failure left a url RECONNECTING without a handle, a
\* thread eventually reaches a transport open for that url.
C5_EventualReopen ==
  \A u \in Urls :
    (stream_status[u] = "reconnecting" /\ ~Has(captures, u))
      ~> (\E c \in Callers : cpc[c] = "gs237" /\ curl[c] = u)

\* C6: the periodic sweep of the idle checker never stops.
C6_ReaperNeverStops == rpc # "crashed"

\* C7: when the pull fails on a CONNECTED session, the status goes from
\* CONNECTED to RECONNECTING, and no handle is released more than once.
InPullFailure(u) ==
  \E p \in Pumps : pumps[p].url = u /\ pumps[p].pc \in {"p132", "p133", "p134", "p135"}

C7_PullFailure ==
  [][/\ \A u \in Urls :
          (InPullFailure(u) /\ stream_status[u] = "connected"
             /\ stream_status'[u] # "connected")
            => stream_status'[u] = "reconnecting"
     /\ \A h \in Handles : released'[h] <= 1]_vars

\* the same claim, its two halves apart
C7_StatusHalf ==
  [][\A u \in Urls :
       (InPullFailure(u) /\ stream_status[u] = "connected"
          /\ stream_status'[u] # "connected")
         => stream_status'[u] = "reconnecting"]_vars
C7_ReleasedOnce == \A h \in Handles : released[h] <= 1

LastN(q, k) == SubSeq(q, Len(q) - k + 1, Len(q))
Min(a, b) == IF a <= b THEN a ELSE b

C9_BufferFifo ==
  \A u \in Urls :
    /\ Len(frame_buffers[u].q) <= 3
    /\ frame_buffers[u].q = LastN(published[u], Min(Len(published[u]), 3))

\* C10: a step of a thread that works on stream a changes no field of the
\* session of another stream b and does not set the stop Event of b's
\* workers, and a failure on a never ends the sweep that is to reap b.
Session(u) ==
  <<Has(captures, u), Get(captures, u), last_frames[u], connection_errors[u],
    stream_status[u], frame_buffers[u], processing_threads[u], stop_flags[u],
    last_access_times[u]>>
\* the step is taken by a thread that is working on url u
ActsOn(u) ==
  \/ \E c \in Callers : cpc'[c] # cpc[c] /\ (curl[c] = u \/ curl'[c] = u)
  \/ \E p \in Pumps : pumps'[p] # pumps[p] /\ pumps[p].url = u
  \/ rpc' # rpc /\ rkeys # <<>> /\ Head(rkeys) = u

C10_Isolation ==
  [][\A b \in Urls :
       /\ Session(b)' # Session(b) => ActsOn(b)
       /\ (\E p \in Pumps : pumps[p].url = b /\ p \in evset' /\ p \notin evset)
            => ActsOn(b)
       /\ ~(/\ rpc' = "crashed" /\ rpc # "crashed"
            /\ Head(rkeys) # b /\ Has(captures', b))]_vars

\* C11: a request with a stream_index outside config.streams is answered
\* 404, changes nothing of the StreamManager and opens nothing; a request
\* with a valid index whose stream has no frame to return is answered 503.
NotFoundStep == ncalls' # ncalls /\ cpc' = cpc
RespondStep(c) == cpc[c] = "ret" /\ cpc'[c] = "idle"

C11_NotFoundHalf ==
  [][NotFoundStep =>
       /\ mgr' = mgr /\ released' = released /\ pumps' = pumps /\ evset' = evset
       /\ \A c \in Callers : ~OpenStep(c)]_vars

C11_NotFoundUnavailable ==
  [][/\ NotFoundStep =>
          /\ mgr' = mgr /\ released' = released /\ pumps' = pumps
          /\ evset' = evset
          /\ \A c \in Callers : ~OpenStep(c)
     /\ \A c \in Callers :
          (RespondStep(c) /\ Latest(curl[c]) = 0) => Response(cret[c]) = 503]_vars

\* C12: a get_frame call returns the cached value of its url (the newest
\* frame of the buffer, else the last-frame cache) and leaves the error
\* entry (last error time, consecutive count) as it was; so calls between
\* which no frame is published return the same value and do not touch the
\* error history.
CallerStep(c) == cpc'[c] # cpc[c]

C12_Idempotent ==
  [][\A c \in Callers :
       CallerStep(c) =>
         /\ connection_errors' = connection_errors
         /\ ReturnStep(c) => cret'[c] = Latest(curl[c])]_vars

\* C13: no step of the idle checker, its teardown of a session included,
\* removes or overwrites an entry of the last-frame cache.
ReaperActs == rpc' # rpc \/ rkeys' # rkeys \/ rtime' # rtime

C13_ReaperKeepsLastFrame == [][ReaperActs => last_frames' = last_frames]_vars

\* a session with a cached frame has just been torn down
C13_Witness ==
  \E u \in Urls :
    /\ rpc = "r337" /\ stream_status[u] = "idle" /\ ~Has(captures, u)
    /\ last_frames[u] > 0

\* C14: when the shutdown hook completes, the stop Event of every worker
\* has been set, every handle that was opened has been released, and every
\* dict of the StreamManager is empty: captures, last_frames,
\* last_access_times, connection_errors, stream_status, frame_buffers,
\* processing_threads, stop_flags.
Cleared ==
  /\ captures = <<>>
  /\ \A u \in Urls :
       /\ last_frames[u] = 0
       /\ last_access_times[u] = 0
       /\ connection_errors[u].n = 0
       /\ stream_status[u] = "absent"
       /\ ~frame_buffers[u].has
       /\ processing_threads[u] = 0
       /\ stop_flags[u] = 0

C14_ShutdownClears ==
  [][(sdpc # "done" /\ sdpc' = "done") =>
       /\ \A p \in UsedPumps' : p \in evset'
       /\ \A h \in Handles : released'[h] # 0
       /\ Cleared']_vars

\* C15: the consecutive error count of a url goes up only in a step that is
\* a failed transport open for it, and goes back to zero only in a step that
\* is a successful transport open for it; a pull failure, an elapsed
\* cooldown and an idle teardown leave it alone.
OpenFails(c) == OpenStep(c) /\ cpc'[c] = "ret"
OpenSucceeds(c) == OpenStep(c) /\ cpc'[c] = "gs281"

C15_CountOnlyByOpen ==
  [][\A u \in Urls :
       /\ ErrCount(u)' > ErrCount(u)
            => \E c \in Callers : curl[c] = u /\ OpenFails(c)
       /\ (ErrCount(u) > 0 /\ ErrCount(u)' = 0)
            => \E c \in Callers : curl[c] = u /\ OpenSucceeds(c)]_vars

\* its two halves apart
C15_UpOnlyByOpen ==
  [][\A u \in Urls :
       ErrCount(u)' > ErrCount(u)
         => \E c \in Callers : curl[c] = u /\ OpenFails(c)]_vars
C15_ZeroOnlyByOpen ==
  [][\A u \in Urls :
       (ErrCount(u) > 0 /\ ErrCount(u)' = 0)
         => \E c \in Callers : curl[c] = u /\ OpenSucceeds(c)]_vars

\* C16: a worker never calls grab()/retrieve() on a handle that has been
\* released, and the idle checker releases the handle of a url only when no
\* worker of that url is still running.
GrabStep(p) == pumps[p].pc = "p131" /\ pumps'[p].pc # "p131"
TeardownRelease == rpc = "r344" /\ rpc' = "r345"

C16_NoPullAfterRelease ==
  [][/\ \A p \in Pumps : GrabStep(p) => released[pumps[p].cap] = 0
     /\ TeardownRelease => AlivePumps(Head(rkeys)) = {}]_vars

\* its first half alone
C16_GrabOnOpenHandle ==
  [][\A p \in Pumps : GrabStep(p) => released[pumps[p].cap] = 0]_vars

\* C17: in every reachable state, a url that has an entry in self.captures
\* has the status CONNECTED.
C17_HandleOnlyConnected ==
  \A u \in Urls : Has(captures, u) => stream_status[u] = "connected"

\* the same with every thread at rest: no request inside get_frame, the
\* idle checker asleep, no worker inside its pull-failure path
AtRest ==
  /\ \A c \in Callers : cpc[c] = "idle"
  /\ rpc \in {"r347", "crashed"}
  /\ \A p \in Pumps : pumps[p].pc \in {"free", "p124", "exited"}

C17_HandleOnlyConnectedAtRest == AtRest => C17_HandleOnlyConnected

\* C18: the loop of a worker ends only at its head (line 124) and only
\* because its own stop Event is set; a failed pull, a dropped frame, or a
\* KeyError at line 134 after the idle checker removed the entry, do not
\* end it.
PumpExits(p) == pumps[p].pc # "exited" /\ pumps'[p].pc = "exited"

C18_ExitOnlyByStop ==
  [][\A p \in Pumps : PumpExits(p) => (pumps[p].pc = "p124" /\ p \in evset)]_vars

\* a worker is back at the loop head after its `del` met an entry that the
\* idle checker had removed: both have released the handle, the idle
\* checker's delete went through, the worker's line 135 was skipped
C18_Witness ==
  \E p \in Pumps :
    /\ pumps[p].pc = "p124" /\ rpc = "r346"
    /\ ~Has(captures, pumps[p].url)
    /\ stream_status[pumps[p].url] = "error"
    /\ \E h \in Handles : released[h] = 2

\* C19: whenever a url has an entry in self.captures, no get_frame for it
\* is in progress and the idle checker is not in the middle of tearing it
\* down, a worker of that url is alive whose stop Event is not set.
InGetFrame(u) == \E c \in Callers : curl[c] = u
InTeardown(u) == rpc \in {"r342", "r344", "r345"} /\ Head(rkeys) = u

C19_HandleHasPump ==
  \A u \in Urls :
    (Has(captures, u) /\ ~InGetFrame(u) /\ ~InTeardown(u))
      => \E p \in AlivePumps(u) : p \notin evset

\* C20: a handle leaves self.captures, removed or overwritten by a newer
\* one, only after release() has been called on that handle.
Registered(h) == \E i \in 1..Len(captures) : captures[i].v = h

C20_NoHandleLost ==
  [][\A h \in Handles :
       (Registered(h) /\ ~Registered(h)') => released[h] > 0]_vars

\* C21: every step of an idle teardown of a url (setting the stop Event,
\* releasing the handle, deleting the entry, setting the status "idle") is
\* taken while the last get_frame for that url lies more than idle_timeout
\* before the sweep's current_time; a url accessed or re-opened while the
\* sweep runs is not torn down.
TeardownStep == rpc \in {"r340", "r344", "r345", "r346"} /\ rpc' # rpc

C21_NoTeardownOfFresh == [][TeardownStep => Idle(Head(rkeys))]_vars

====
